---- MODULE Spec2Model ----
(***************************************************************************)
(* Model of downbtn/ap-maze: the depth-first maze generator GenerateMaze   *)
(* (src/maze/generate.go) and the shortest-path routine Maze.CreateSpt     *)
(* (src/maze/game.go).                                                     *)
(*                                                                         *)
(* Boards are functions [0..rows-1 -> [0..cols-1 -> Tile]] so that every   *)
(* index expression reads as it does in the Go source.  A Go run-time      *)
(* panic (index out of range, rand.Intn of a non-positive bound, make of   *)
(* a negative length) is the control state "panic".                        *)
(***************************************************************************)
EXTENDS Integers, Sequences, FiniteSets, TLC

VARIABLES
    pc,         \* position of the call being modelled
    width,      \* GenerateMaze argument
    height,     \* GenerateMaze argument
    seed,       \* GenerateMaze argument
    board,      \* local board of GenerateMaze / m.Board of CreateSpt
    rng,        \* state of the call's own seeded generator (rand.New)
    toVisit,    \* unvisited counter
    x,          \* current cell, X
    y,          \* current cell, Y
    backtrack,  \* visit stack
    endpoints,  \* recorded endpoint candidates
    ret,        \* what GenerateMaze returned
    prev,       \* what the previous GenerateMaze call with these arguments returned
    sptSrc,     \* CreateSpt argument src
    sptRet,     \* what CreateSpt returned
    sptSt,      \* CreateSpt's distances and pq while its main loop runs
    text,       \* LoadMazeFromString argument s, a sequence of characters
    loaded,     \* what LoadMazeFromString returned
    CurrentMap,    \* Game.CurrentMap
    PlayerX,       \* Game.PlayerX
    PlayerY,       \* Game.PlayerY
    CurrentSteps,  \* Game.CurrentSteps
    display,    \* the string last rendered by DisplayText
    calls,      \* the locals of each of two concurrent GenerateMaze calls
    grand,      \* state of the process-wide source behind rand.Intn
    grand0      \* state of the process-wide source when the calls started

\* the variables of the loader, the game, the stepwise CreateSpt and the
\* concurrent calls
extVars == <<sptSt, text, loaded, CurrentMap, PlayerX, PlayerY, CurrentSteps,
             display, calls, grand, grand0>>

vars == <<pc, width, height, seed, board, rng, toVisit, x, y, backtrack,
          endpoints, ret, prev, sptSrc, sptRet, extVars>>

----------------------------------------------------------------------------
(* Bounds of the model *)

MaxWidth == 3
MaxHeight == 3
MaxSeed == 6
RepeatMaxWidth == 3
RepeatMaxHeight == 2
SptMaxWidth == 3
SptMaxHeight == 2
LoopMaxWidth == 2
LoopMaxHeight == 2
ConcMaxWidth == 2
ConcMaxHeight == 2
ConcMaxSeed == 1
MaxTextLen == 4
MaxSteps == 3

----------------------------------------------------------------------------
(* Tiles, coordinates, directions *)

TILE_EMPTY == "."
TILE_WALL == "#"
TILE_START == ">"
TILE_END == "<"

POS_Y == 0
POS_X == 1
NEG_Y == 2
NEG_X == 3

Coords(cx, cy) == [X |-> cx, Y |-> cy]

None == [kind |-> "none"]

\* the values of extVars while the operation they belong to is not running
ExtIdle ==
    /\ sptSt = None
    /\ text = <<>>
    /\ loaded = None
    /\ CurrentMap = None
    /\ PlayerX = -1
    /\ PlayerY = -1
    /\ CurrentSteps = 0
    /\ display = <<>>
    /\ calls = <<>>
    /\ grand = 0
    /\ grand0 = 0

\* math.MaxInt, the "unreached" entry of a distance table (value of a
\* 32-bit int; it is only ever compared, never added to)
MaxInt == 2147483647

\* Go's % and / truncate towards zero
GoRem(a, b) == IF a >= 0 THEN a % b ELSE -((-a) % b)
GoDiv(a, b) == IF a >= 0 THEN a \div b ELSE -((-a) \div b)

NumRows(b) == Cardinality(DOMAIN b)
NumCols(b) == Cardinality(DOMAIN b[0])

\* board[r][c] = t
SetTile(b, r, c, t) == [b EXCEPT ![r] = [b[r] EXCEPT ![c] = t]]

\* lines 23-29: a (2*height+1) x (2*width+1) board of all walls
AllWalls(w, h) == [i \in 0..(2 * h) |-> [j \in 0..(2 * w) |-> TILE_WALL]]

----------------------------------------------------------------------------
(* The seeded generator of one call: rand.New(rand.NewSource(seed)).       *)
(* A deterministic stream: the state after NewSource is a function of the  *)
(* seed, and every Intn advances the state and returns a function of it.   *)

RngMod == 31
NewSource(s) == s % RngMod
RngNext(s) == (s * 12 + 11) % RngMod
RngIntn(s, n) == RngNext(s) % n

----------------------------------------------------------------------------
(* GenerateMaze, src/maze/generate.go *)

\* Directions with the tests of the neighbouring cell's tile left out: every
\* in-bounds neighbour is a candidate
DirectionsAnyTile(b, cx, cy, w, h) ==
    (IF cy # h - 1 THEN <<POS_Y>> ELSE <<>>)
    \o (IF cy # 0 THEN <<NEG_Y>> ELSE <<>>)
    \o (IF cx # w - 1 THEN <<POS_X>> ELSE <<>>)
    \o (IF cx # 0 THEN <<NEG_X>> ELSE <<>>)

\* lines 48-60 (and 71-82): the candidate directions of cell (cx, cy), in
\* the order POS_Y, NEG_Y, POS_X, NEG_X
Directions(b, cx, cy, w, h) ==
    (IF cy # h - 1 /\ b[1 + 2 * (cy + 1)][1 + 2 * cx] # TILE_EMPTY
        THEN <<POS_Y>> ELSE <<>>)
    \o (IF cy # 0 /\ b[1 + 2 * (cy - 1)][1 + 2 * cx] # TILE_EMPTY
        THEN <<NEG_Y>> ELSE <<>>)
    \o (IF cx # w - 1 /\ b[1 + 2 * cy][1 + 2 * (cx + 1)] # TILE_EMPTY
        THEN <<POS_X>> ELSE <<>>)
    \o (IF cx # 0 /\ b[1 + 2 * cy][1 + 2 * (cx - 1)] # TILE_EMPTY
        THEN <<NEG_X>> ELSE <<>>)

\* CarvedWall with the column of the POS_Y connector off by one: the tile
\* diagonally below the cell
CarvedWallDiagonal(cx, cy, move) ==
    CASE move = POS_X -> [r |-> 2 * cy + 1, c |-> 2 * cx + 2]
      [] move = POS_Y -> [r |-> 2 * cy + 2, c |-> 2 * cx + 2]
      [] move = NEG_X -> [r |-> 2 * cy + 1, c |-> 2 * cx]
      [] move = NEG_Y -> [r |-> 2 * cy, c |-> 2 * cx + 1]

\* lines 86-99: the connector carved by a move from cell (cx, cy)
CarvedWall(cx, cy, move) ==
    CASE move = POS_X -> [r |-> 2 * cy + 1, c |-> 2 * cx + 2]
      [] move = POS_Y -> [r |-> 2 * cy + 2, c |-> 2 * cx + 1]
      [] move = NEG_X -> [r |-> 2 * cy + 1, c |-> 2 * cx]
      [] move = NEG_Y -> [r |-> 2 * cy, c |-> 2 * cx + 1]

\* lines 86-99: the cell a move from (cx, cy) leads to
MoveTarget(cx, cy, move) ==
    CASE move = POS_X -> Coords(cx + 1, cy)
      [] move = POS_Y -> Coords(cx, cy + 1)
      [] move = NEG_X -> Coords(cx - 1, cy)
      [] move = NEG_Y -> Coords(cx, cy - 1)

\* CarveBoard with the assignment to the connector left out: only the
\* target cell is set to Empty
CarveBoardCellOnly(b, cx, cy, move) ==
    LET t == MoveTarget(cx, cy, move)
    IN SetTile(b, 1 + 2 * t.Y, 1 + 2 * t.X, TILE_EMPTY)

\* lines 86-101: the board after the move: the connector and the target
\* cell are set to Empty
CarveBoard(b, cx, cy, move) ==
    LET wl == CarvedWall(cx, cy, move)
        t  == MoveTarget(cx, cy, move)
    IN SetTile(SetTile(b, wl.r, wl.c, TILE_EMPTY), 1 + 2 * t.Y, 1 + 2 * t.X, TILE_EMPTY)

\* lines 23-29: allocation of the board; make panics on a negative capacity
\* (2*height+1 < 0) or, in the first iteration, a negative length
AllocPanics(w, h) == 2 * h + 1 < 0 \/ 2 * w + 1 < 0

Alloc ==
    /\ pc = "alloc"
    /\ ~AllocPanics(width, height)
    /\ board' = AllWalls(width, height)
    /\ pc' = "seed"
    /\ UNCHANGED <<width, height, seed, rng, toVisit, x, y, backtrack,
                   endpoints, ret, prev, sptSrc, sptRet, extVars>>

AllocPanic ==
    /\ pc = "alloc"
    /\ AllocPanics(width, height)
    /\ pc' = "panic"
    /\ UNCHANGED <<width, height, seed, board, rng, toVisit, x, y, backtrack,
                   endpoints, ret, prev, sptSrc, sptRet, extVars>>

\* lines 37-38: rng.Intn(n) panics unless n > 0
IntnPanics(w, h) == w <= 0 \/ h <= 0

\* lines 34-41: the call's generator is seeded, the starting cell is drawn
\* from it; the starting cell is neither carved nor pushed on the stack, and
\* endpoints starts as the zero Coords of make([]Coords, 1) followed by the
\* starting cell
SeedAndStart ==
    /\ pc = "seed"
    /\ ~IntnPanics(width, height)
    /\ LET r0 == NewSource(seed)
           r1 == RngNext(r0)
           r2 == RngNext(r1)
       IN /\ x' = RngIntn(r0, width)
          /\ y' = RngIntn(r1, height)
          /\ rng' = r2
          /\ endpoints' = <<Coords(0, 0), Coords(RngIntn(r0, width), RngIntn(r1, height))>>
    /\ toVisit' = width * height
    /\ backtrack' = <<>>
    /\ pc' = "loop"
    /\ UNCHANGED <<width, height, seed, board, ret, prev, sptSrc, sptRet, extVars>>

SeedPanic ==
    /\ pc = "seed"
    /\ IntnPanics(width, height)
    /\ pc' = "panic"
    /\ UNCHANGED <<width, height, seed, board, rng, toVisit, x, y, backtrack,
                   endpoints, ret, prev, sptSrc, sptRet, extVars>>

\* lines 85-102: one carving step.  The direction index comes from the
\* process-wide source (rand.Intn, line 85), not from the call's rng: its
\* value is any index of the candidate list.
Carve ==
    /\ pc = "loop"
    /\ toVisit > 0
    /\ LET directions == Directions(board, x, y, width, height)
       IN /\ Len(directions) # 0
          /\ \E i \in 0..(Len(directions) - 1) :
                LET move == directions[i + 1]
                    t == MoveTarget(x, y, move)
                IN /\ board' = CarveBoard(board, x, y, move)
                   /\ x' = t.X
                   /\ y' = t.Y
                   /\ backtrack' = Append(backtrack, t)
    /\ toVisit' = toVisit - 1
    /\ UNCHANGED <<pc, width, height, seed, rng, endpoints, ret, prev, sptSrc, sptRet, extVars>>

\* lines 62-65: the current cell has no candidate: it is recorded as an
\* endpoint and the backtrack loop is entered
DeadEnd ==
    /\ pc = "loop"
    /\ toVisit > 0
    /\ Len(Directions(board, x, y, width, height)) = 0
    /\ endpoints' = Append(endpoints, Coords(x, y))
    /\ pc' = "backtrack"
    /\ UNCHANGED <<width, height, seed, board, rng, toVisit, x, y, backtrack,
                   ret, prev, sptSrc, sptRet, extVars>>

\* lines 66-83: one iteration of the backtrack loop: the top of the stack
\* becomes the current cell and is popped; the loop ends when that cell has
\* a candidate direction
BacktrackPop ==
    /\ pc = "backtrack"
    /\ Len(backtrack) > 0
    /\ LET top == backtrack[Len(backtrack)]
       IN /\ x' = top.X
          /\ y' = top.Y
          /\ pc' = IF Len(Directions(board, top.X, top.Y, width, height)) = 0
                      THEN "backtrack" ELSE "loop"
    /\ backtrack' = SubSeq(backtrack, 1, Len(backtrack) - 1)
    /\ UNCHANGED <<width, height, seed, board, rng, toVisit, endpoints, ret,
                   prev, sptSrc, sptRet, extVars>>

\* line 67: backtrack[len(backtrack)-1] on the empty stack is an index out
\* of range
BacktrackPanic ==
    /\ pc = "backtrack"
    /\ Len(backtrack) = 0
    /\ pc' = "panic"
    /\ UNCHANGED <<width, height, seed, board, rng, toVisit, x, y, backtrack,
                   endpoints, ret, prev, sptSrc, sptRet, extVars>>

----------------------------------------------------------------------------
(* Maze.CreateSpt and its queue, src/maze/game.go *)

\* lines 349-353: a queue item (the index field is written by Swap and Push
\* and never read)
Item(p, wt) == [pos |-> p, weight |-> wt]

\* line 364-366: pointQueue.Less on 0-based positions i, j
Less(q, i, j) == q[i + 1].weight < q[j + 1].weight

\* lines 368-372: pointQueue.Swap on 0-based positions i, j
Swap(q, i, j) == [q EXCEPT ![i + 1] = q[j + 1], ![j + 1] = q[i + 1]]

\* container/heap up(h, j): the sift-up that heap.Push runs after the append
RECURSIVE HeapUp(_, _)
HeapUp(q, j) ==
    LET i == GoDiv(j - 1, 2)
    IN IF i = j \/ ~Less(q, j, i) THEN q ELSE HeapUp(Swap(q, i, j), i)

\* lines 374-379 under heap.Push: append, then sift up
HeapPush(q, it) == HeapUp(Append(q, it), Len(q))

\* lines 381-389: pointQueue.Pop, called directly at line 434: the LAST
\* element of the slice is removed and returned
QueuePop(q) == [item |-> q[Len(q)], rest |-> SubSeq(q, 1, Len(q) - 1)]

\* lines 397-399: the dimension check
InvalidBoard(b) == GoRem(NumRows(b), 2) # 1 \/ GoRem(NumCols(b), 2) # 1

\* InvalidSource with the test of src.Y left out
InvalidSourceXOnly(s) == GoRem(s.X, 2) # 1

\* lines 400-402: the source check
InvalidSource(s) == GoRem(s.X, 2) # 1 \/ GoRem(s.Y, 2) # 1

\* lines 414-420: the table of realHeight x realWidth entries, all math.MaxInt
InitDistances(realHeight, realWidth) ==
    [i \in 0..(realHeight - 1) |-> [j \in 0..(realWidth - 1) |-> MaxInt]]

\* Adjacent with the tile of the X-1 side tested for the X+1 neighbour
AdjacentWrongTile(b, p) ==
    (IF b[p.Y * 2][p.X * 2 + 1] = TILE_EMPTY THEN <<Coords(p.X, p.Y - 1)>> ELSE <<>>)
    \o (IF b[p.Y * 2 + 2][p.X * 2 + 1] = TILE_EMPTY THEN <<Coords(p.X, p.Y + 1)>> ELSE <<>>)
    \o (IF b[p.Y * 2 + 1][p.X * 2] = TILE_EMPTY THEN <<Coords(p.X + 1, p.Y)>> ELSE <<>>)
    \o (IF b[p.Y * 2 + 1][p.X * 2] = TILE_EMPTY THEN <<Coords(p.X - 1, p.Y)>> ELSE <<>>)

\* lines 436-451: the cells adjacent to cell p through an Empty tile, in the
\* order Y-1, Y+1, X+1, X-1
Adjacent(b, p) ==
    (IF b[p.Y * 2][p.X * 2 + 1] = TILE_EMPTY THEN <<Coords(p.X, p.Y - 1)>> ELSE <<>>)
    \o (IF b[p.Y * 2 + 2][p.X * 2 + 1] = TILE_EMPTY THEN <<Coords(p.X, p.Y + 1)>> ELSE <<>>)
    \o (IF b[p.Y * 2 + 1][p.X * 2 + 2] = TILE_EMPTY THEN <<Coords(p.X + 1, p.Y)>> ELSE <<>>)
    \o (IF b[p.Y * 2 + 1][p.X * 2] = TILE_EMPTY THEN <<Coords(p.X - 1, p.Y)>> ELSE <<>>)

\* distances[p.Y][p.X] is a valid index
InTable(d, p) == p.Y \in DOMAIN d /\ p.X \in DOMAIN d[p.Y]

\* line 454: the tentative distance through the current cell
NewDist(d, cur) == d[cur.Y][cur.X] + 1

\* lines 453-459: the relaxation of the adjacent cells adj[k..] of cur; st
\* is [status, dist, pq]; an adjacent cell outside the table is an index out
\* of range
RECURSIVE Relax(_, _, _, _)
Relax(st, cur, adj, k) ==
    IF k > Len(adj) THEN st
    ELSE LET point == adj[k]
             newDist == NewDist(st.dist, cur)
         IN IF ~InTable(st.dist, point)
               THEN [st EXCEPT !.status = "panic"]
            ELSE IF newDist < st.dist[point.Y][point.X]
               THEN Relax([st EXCEPT
                             !.dist = [st.dist EXCEPT ![point.Y] =
                                         [st.dist[point.Y] EXCEPT ![point.X] = newDist]],
                             !.pq = HeapPush(st.pq, Item(point, newDist))],
                          cur, adj, k + 1)
            ELSE Relax(st, cur, adj, k + 1)

\* lines 432-460: one iteration of the main loop
SptStep(b, st) ==
    LET popped == QueuePop(st.pq)
        current == popped.item
    IN Relax([st EXCEPT !.pq = popped.rest], current.pos, Adjacent(b, current.pos), 1)

\* lines 432-460: the main loop, run until the queue is empty
RECURSIVE SptLoop(_, _)
SptLoop(b, st) ==
    IF st.status = "panic" \/ Len(st.pq) = 0 THEN st ELSE SptLoop(b, SptStep(b, st))

\* lines 396-430: the two checks, the table and the queue holding the
\* source.  The result is [status |-> "error", err |-> ...],
\* [status |-> "panic"] (distances[realSrc.Y][realSrc.X] out of range) or
\* the state [status |-> "ok", dist, pq] the main loop starts from
SptStart(b, s) ==
    IF InvalidBoard(b) THEN [status |-> "error", err |-> "InvalidBoard"]
    ELSE IF InvalidSource(s) THEN [status |-> "error", err |-> "InvalidSource"]
    ELSE LET realHeight == GoDiv(NumRows(b) - 1, 2)
             realWidth == GoDiv(NumCols(b) - 1, 2)
             realSrc == Coords(GoDiv(s.X - 1, 2), GoDiv(s.Y - 1, 2))
             distances == InitDistances(realHeight, realWidth)
         IN IF ~InTable(distances, realSrc) THEN [status |-> "panic"]
            ELSE [status |-> "ok",
                  dist |-> [distances EXCEPT ![realSrc.Y] =
                               [distances[realSrc.Y] EXCEPT ![realSrc.X] = 0]],
                  pq |-> HeapPush(<<>>, Item(realSrc, 0))]

\* lines 396-463: CreateSpt as a whole.  The result is
\* [status |-> "error", err |-> ...], [status |-> "panic"] or
\* [status |-> "ok", dist |-> the table]
CreateSpt(b, s) ==
    LET st0 == SptStart(b, s)
    IN IF st0.status # "ok" THEN st0
       ELSE LET fin == SptLoop(b, st0)
            IN IF fin.status = "panic" THEN [status |-> "panic"]
               ELSE [status |-> "ok", dist |-> fin.dist]

----------------------------------------------------------------------------
(* GenerateMaze, endpoint selection and return (generate.go lines 120-160) *)

\* lines 131-140: the row-major scan of a distance table for its first
\* largest entry; acc is [longest, p2], n the number of entries scanned
RECURSIVE ScanLongest(_, _, _)
ScanLongest(spt, n, acc) ==
    LET rows == Cardinality(DOMAIN spt)
        cols == IF rows = 0 THEN 0 ELSE Cardinality(DOMAIN spt[0])
    IN IF n >= rows * cols THEN acc
       ELSE LET j == n \div cols
                k == n % cols
                val == spt[j][k]
            IN ScanLongest(spt, n + 1,
                  IF val > acc.longest
                     THEN [longest |-> val, p2 |-> Coords(k, j)]
                     ELSE acc)

Longest(spt) == ScanLongest(spt, 0, [longest |-> -1, p2 |-> Coords(0, 0)])

\* line 142: a run replaces the best pair only when strictly longer
Better(longest, dist) == longest > dist

\* lines 125-148: the greedy loop over endpoints[i..]; acc is
\* [status, src, dest, dist]
RECURSIVE SelectLoop(_, _, _, _)
SelectLoop(b, eps, i, acc) ==
    IF i > Len(eps) THEN acc
    ELSE LET p1 == eps[i]
             spt == CreateSpt(b, Coords(p1.X * 2 + 1, p1.Y * 2 + 1))
         IN IF spt.status # "ok" THEN [acc EXCEPT !.status = spt.status]
            ELSE LET l == Longest(spt.dist)
                 IN SelectLoop(b, eps, i + 1,
                       IF Better(l.longest, acc.dist)
                          THEN [acc EXCEPT !.dist = l.longest, !.src = p1, !.dest = l.p2]
                          ELSE acc)

SelectEndpoints(b, eps) ==
    SelectLoop(b, eps, 1,
               [status |-> "ok", src |-> Coords(0, 0), dest |-> Coords(0, 0), dist |-> -1])

\* lines 150-151: Start is stamped first, End second
Stamp(b, src, dest) ==
    SetTile(SetTile(b, src.Y * 2 + 1, src.X * 2 + 1, TILE_START),
            dest.Y * 2 + 1, dest.X * 2 + 1, TILE_END)

\* MakeMaze with the X and Y of dest exchanged in End
MakeMazeSwapped(b, src, dest, dist, w, h) ==
    [kind |-> "maze",
     Board |-> b,
     Start |-> Coords(src.X * 2 + 1, src.Y * 2 + 1),
     End |-> Coords(dest.Y * 2 + 1, dest.X * 2 + 1),
     PathLen |-> dist,
     Width |-> w * 2 + 1,
     Height |-> h * 2 + 1]

\* lines 153-160: the returned Maze
MakeMaze(b, src, dest, dist, w, h) ==
    [kind |-> "maze",
     Board |-> b,
     Start |-> Coords(src.X * 2 + 1, src.Y * 2 + 1),
     End |-> Coords(dest.X * 2 + 1, dest.Y * 2 + 1),
     PathLen |-> dist,
     Width |-> w * 2 + 1,
     Height |-> h * 2 + 1]

\* lines 43, 120-160: the carving loop has ended (toVisit = 0); the
\* endpoints are chosen, stamped, and the Maze is returned; an error of
\* CreateSpt is returned as (nil, err)
Select ==
    /\ pc = "loop"
    /\ toVisit <= 0
    /\ LET sel == SelectEndpoints(board, endpoints)
       IN /\ pc' = IF sel.status = "panic" THEN "panic" ELSE "done"
          /\ board' = IF sel.status = "ok" THEN Stamp(board, sel.src, sel.dest) ELSE board
          /\ ret' = IF sel.status = "ok"
                       THEN MakeMaze(Stamp(board, sel.src, sel.dest), sel.src, sel.dest,
                                     sel.dist, width, height)
                    ELSE IF sel.status = "error" THEN [kind |-> "error"]
                    ELSE ret
    /\ UNCHANGED <<width, height, seed, rng, toVisit, x, y, backtrack, endpoints,
                   prev, sptSrc, sptRet, extVars>>

----------------------------------------------------------------------------
(* One call of GenerateMaze *)

Args(maxW, maxH) ==
    /\ width \in (-1)..maxW
    /\ height \in (-1)..maxH
    /\ seed \in 0..MaxSeed

Entry ==
    /\ pc = "alloc"
    /\ board = <<>>
    /\ rng = 0
    /\ toVisit = 0
    /\ x = 0
    /\ y = 0
    /\ backtrack = <<>>
    /\ endpoints = <<>>
    /\ ret = None
    /\ sptSrc = Coords(0, 0)
    /\ sptRet = None
    /\ ExtIdle

Init ==
    /\ Args(MaxWidth, MaxHeight)
    /\ Entry
    /\ prev = None

Next ==
    \/ Alloc
    \/ AllocPanic
    \/ SeedAndStart
    \/ SeedPanic
    \/ Carve
    \/ DeadEnd
    \/ BacktrackPop
    \/ BacktrackPanic
    \/ Select

Spec == Init /\ [][Next]_vars

----------------------------------------------------------------------------
(* Two calls of GenerateMaze with the same arguments, one after the other *)

\* the first call has returned; its result is kept and GenerateMaze is
\* entered again with the same width, height and seed
CallAgain ==
    /\ pc = "done"
    /\ prev = None
    /\ prev' = ret
    /\ pc' = "alloc"
    /\ board' = <<>>
    /\ rng' = 0
    /\ toVisit' = 0
    /\ x' = 0
    /\ y' = 0
    /\ backtrack' = <<>>
    /\ endpoints' = <<>>
    /\ ret' = None
    /\ UNCHANGED <<width, height, seed, sptSrc, sptRet, extVars>>

RepeatInit ==
    /\ Args(RepeatMaxWidth, RepeatMaxHeight)
    /\ Entry
    /\ prev = None

RepeatNext ==
    \/ Next
    \/ CallAgain

RepeatSpec == RepeatInit /\ [][RepeatNext]_vars

----------------------------------------------------------------------------
(* One call of CreateSpt on a given board *)

\* the cells of a w x h cell grid
Cells(w, h) == {Coords(cx, cy) : cx \in 0..(w - 1), cy \in 0..(h - 1)}

\* the board positions lying between two orthogonally adjacent cells
Connectors(w, h) ==
    {[r |-> 2 * cy + 1, c |-> 2 * cx + 2] : cx \in 0..(w - 2), cy \in 0..(h - 1)}
    \cup {[r |-> 2 * cy + 2, c |-> 2 * cx + 1] : cx \in 0..(w - 1), cy \in 0..(h - 2)}

\* a rows x cols board: Wall everywhere, Empty at the odd/odd cell centres
\* and at the positions of open
BoardWith(rows, cols, open) ==
    [i \in 0..(rows - 1) |-> [j \in 0..(cols - 1) |->
        IF [r |-> i, c |-> j] \in open \/ (i % 2 = 1 /\ j % 2 = 1 /\ i < rows - 1 /\ j < cols - 1)
           THEN TILE_EMPTY ELSE TILE_WALL]]

\* the boards CreateSpt is called on: any dimensions up to the bounds, even
\* ones included; an odd x odd board has an all-Wall border and any set of
\* its connectors open
SptBoards ==
    {BoardWith(bd[1], bd[2], {}) :
        bd \in (0..(2 * SptMaxHeight + 1)) \X (1..(2 * SptMaxWidth + 1))}
    \cup UNION {{BoardWith(2 * ch + 1, 2 * cw + 1, open) : open \in SUBSET Connectors(cw, ch)} :
                  cw \in 1..SptMaxWidth, ch \in 1..SptMaxHeight}

SptInit ==
    /\ pc = "spt_call"
    /\ board \in SptBoards
    /\ sptSrc \in {Coords(sx, sy) : sx \in (-1)..(2 * SptMaxWidth + 1),
                                     sy \in (-1)..(2 * SptMaxHeight + 1)}
    /\ sptRet = None
    /\ width = 0
    /\ height = 0
    /\ seed = 0
    /\ rng = 0
    /\ toVisit = 0
    /\ x = 0
    /\ y = 0
    /\ backtrack = <<>>
    /\ endpoints = <<>>
    /\ ret = None
    /\ prev = None
    /\ ExtIdle

\* m.CreateSpt(src) on board m.Board: it returns a table or an error, or
\* the call panics
CallCreateSpt ==
    /\ pc = "spt_call"
    /\ LET r == CreateSpt(board, sptSrc)
       IN /\ sptRet' = r
          /\ pc' = IF r.status = "panic" THEN "panic" ELSE "spt_ret"
    /\ UNCHANGED <<width, height, seed, board, rng, toVisit, x, y, backtrack,
                   endpoints, ret, prev, sptSrc, extVars>>

SptNext == CallCreateSpt

SptSpec == SptInit /\ [][SptNext]_vars

----------------------------------------------------------------------------
(* The passage graph of a board, defined without reference to CreateSpt *)

\* cells a and c are orthogonally adjacent and the connector between them
\* (the midpoint of their board positions) is Empty
Linked(b, a, c) ==
    /\ (a.X - c.X) * (a.X - c.X) + (a.Y - c.Y) * (a.Y - c.Y) = 1
    /\ b[a.Y + c.Y + 1][a.X + c.X + 1] = TILE_EMPTY

\* breadth-first layers: acc maps every cell to its layer number, or to
\* MaxInt while it has not been reached
RECURSIVE BfsFrom(_, _, _, _, _, _)
BfsFrom(b, cells, frontier, seen, k, acc) ==
    IF frontier = {} THEN acc
    ELSE LET nxt == {c \in cells \ seen : \E f \in frontier : Linked(b, f, c)}
         IN BfsFrom(b, cells, nxt, seen \cup nxt, k + 1,
                    [c \in cells |-> IF c \in frontier THEN k ELSE acc[c]])

\* the number of connectors on a shortest path from cell a to every cell
GraphDist(b, w, h, a) ==
    BfsFrom(b, Cells(w, h), {a}, {a}, 0, [c \in Cells(w, h) |-> MaxInt])

\* the connectors of the board that are not Wall
Carved(b, w, h) == {p \in Connectors(w, h) : b[p.r][p.c] # TILE_WALL}

\* the two cells a connector lies between
Ends(p) ==
    IF p.r % 2 = 1
       THEN <<Coords((p.c - 2) \div 2, (p.r - 1) \div 2), Coords(p.c \div 2, (p.r - 1) \div 2)>>
       ELSE <<Coords((p.c - 1) \div 2, (p.r - 2) \div 2), Coords((p.c - 1) \div 2, p.r \div 2)>>

\* some carved connector can be walled up again without separating the two
\* cells it lies between: the passage graph has a cycle
HasCycle(b, w, h) ==
    \E p \in Carved(b, w, h) :
        LET e == Ends(p)
        IN GraphDist(SetTile(b, p.r, p.c, TILE_WALL), w, h, e[1])[e[2]] # MaxInt

\* the largest distance between two cells of the passage graph
Diameter(b, w, h) ==
    LET ds == {GraphDist(b, w, h, a)[c] : a \in Cells(w, h), c \in Cells(w, h)}
    IN CHOOSE d \in ds : \A e \in ds : e <= d

\* the number of positions of the board holding tile t
CountTile(b, t) ==
    Cardinality({p \in (DOMAIN b) \X (DOMAIN b[0]) : b[p[1]][p[2]] = t})

Returned == pc = "done" /\ ret.kind = "maze"

ValidDims == width >= 1 /\ height >= 1

----------------------------------------------------------------------------
(* C1: every board GenerateMaze returns has exactly width*height - 1       *)
(* carved connectors, and its passage graph has no cycle.                  *)
C1_SpanningTree ==
    Returned =>
        /\ Cardinality(Carved(ret.Board, width, height)) = width * height - 1
        /\ ~HasCycle(ret.Board, width, height)

(* C2: for width >= 1 and height >= 1 (1x1 included) the call does not     *)
(* crash and returns a Maze whose Board has 2*height+1 rows of 2*width+1   *)
(* tiles with exactly one Start tile and exactly one End tile.             *)
C2_ReturnsBoard ==
    ValidDims =>
        /\ pc # "panic"
        /\ pc = "done" =>
              /\ ret.kind = "maze"
              /\ DOMAIN ret.Board = 0..(2 * height)
              /\ \A i \in DOMAIN ret.Board : DOMAIN ret.Board[i] = 0..(2 * width)
              /\ CountTile(ret.Board, TILE_START) = 1
              /\ CountTile(ret.Board, TILE_END) = 1

\* the cell of a board position
CellOf(p) == Coords((p.X - 1) \div 2, (p.Y - 1) \div 2)

(* C3: in every returned maze no pair of cells is farther apart than Start *)
(* and End, and PathLen is that largest distance (the diameter).           *)
C3_LongestPath ==
    Returned =>
        /\ GraphDist(ret.Board, width, height, CellOf(ret.Start))[CellOf(ret.End)]
              = Diameter(ret.Board, width, height)
        /\ ret.PathLen = Diameter(ret.Board, width, height)

(* C4: two calls with identical (width, height, seed) return identical     *)
(* Boards.                                                                 *)
C4_SameSeedSameBoard ==
    (Returned /\ prev # None) => ret.Board = prev.Board

(* C5: the backtrack phase never reaches the empty stack while unvisited   *)
(* cells remain.                                                           *)
C5_BacktrackFindsCell ==
    ~(pc = "backtrack" /\ Len(backtrack) = 0 /\ toVisit > 0)

\* the table CreateSpt computes from the Start of the returned maze
SptFromStart == CreateSpt(ret.Board, ret.Start)

(* C6: for every returned maze, CreateSpt run from Start returns a table   *)
(* of height x width entries none of which is the unreached sentinel.      *)
C6_AllCellsReached ==
    Returned =>
        /\ SptFromStart.status = "ok"
        /\ DOMAIN SptFromStart.dist = 0..(height - 1)
        /\ \A j \in 0..(height - 1) :
              /\ DOMAIN SptFromStart.dist[j] = 0..(width - 1)
              /\ \A k \in 0..(width - 1) : SptFromStart.dist[j][k] # MaxInt

\* a maze of at least two columns and two rows of cells has been returned and
\* the table from its Start holds a distance of 2 or more
C6_Witness ==
    /\ Returned
    /\ width >= 2
    /\ height >= 2
    /\ SptFromStart.status = "ok"
    /\ \E j \in 0..(height - 1), k \in 0..(width - 1) :
          SptFromStart.dist[j][k] >= 2 /\ SptFromStart.dist[j][k] # MaxInt

\* the board with its Start and End tiles turned back into Empty
Unstamped(b) ==
    [i \in DOMAIN b |-> [j \in DOMAIN b[i] |->
        IF b[i][j] \in {TILE_START, TILE_END} THEN TILE_EMPTY ELSE b[i][j]]]

(* C7: for every returned maze the table of CreateSpt(Start), read at the  *)
(* cell of End, equals PathLen, and the table is the one computed on the   *)
(* board without the Start and End stamps.                                 *)
C7_PathLenIsStartEndDistance ==
    Returned =>
        LET e == Coords(GoDiv(ret.End.X - 1, 2), GoDiv(ret.End.Y - 1, 2))
        IN /\ SptFromStart.status = "ok"
           /\ InTable(SptFromStart.dist, e)
           /\ SptFromStart.dist[e.Y][e.X] = ret.PathLen
           /\ CreateSpt(Unstamped(ret.Board), ret.Start) = SptFromStart

\* a maze whose Start and End lie in different rows and different columns,
\* at least three steps apart, has been returned
C7_Witness ==
    /\ Returned
    /\ ret.PathLen >= 3
    /\ ret.Start.X # ret.End.X
    /\ ret.Start.Y # ret.End.Y
    /\ ret.Board[ret.Start.Y][ret.Start.X] = TILE_START
    /\ ret.Board[ret.End.Y][ret.End.X] = TILE_END

\* the cell dimensions of an odd x odd board
CellsWide(b) == (NumCols(b) - 1) \div 2
CellsHigh(b) == (NumRows(b) - 1) \div 2

IsOdd(n) == n % 2 = 1

OddBoard(b) == IsOdd(NumRows(b)) /\ IsOdd(NumCols(b))

\* every tile of the outer border is Wall
WalledBorder(b) ==
    \A i \in DOMAIN b : \A j \in DOMAIN b[i] :
        (i = 0 \/ j = 0 \/ i = NumRows(b) - 1 \/ j = NumCols(b) - 1) => b[i][j] = TILE_WALL

\* the source is the centre of a cell of the board
SourceIsCell(b, s) ==
    /\ IsOdd(s.X) /\ IsOdd(s.Y)
    /\ s.X >= 1 /\ s.X <= NumCols(b) - 2
    /\ s.Y >= 1 /\ s.Y <= NumRows(b) - 2

(* C8: on a board with odd dimensions and an all-Wall border, from an      *)
(* in-bounds odd/odd source, CreateSpt returns a table in which every      *)
(* cell's entry is the least number of Empty connectors on a path from     *)
(* the source cell (0 for the source itself), and every cell without such  *)
(* a path keeps the unreached sentinel.                                    *)
C8_ShortestDistances ==
    (pc # "spt_call" /\ OddBoard(board) /\ WalledBorder(board) /\ SourceIsCell(board, sptSrc)) =>
        /\ pc = "spt_ret"
        /\ sptRet.status = "ok"
        /\ \A c \in Cells(CellsWide(board), CellsHigh(board)) :
              /\ InTable(sptRet.dist, c)
              /\ sptRet.dist[c.Y][c.X] =
                    GraphDist(board, CellsWide(board), CellsHigh(board), CellOf(sptSrc))[c]

\* a straight corridor of three cells, searched from its left end: the
\* right end is at distance 2
C8_Witness ==
    /\ pc = "spt_ret"
    /\ board = BoardWith(3, 7, {[r |-> 1, c |-> 2], [r |-> 1, c |-> 4]})
    /\ sptSrc = Coords(1, 1)
    /\ sptRet.status = "ok"
    /\ sptRet.dist[0][0] = 0
    /\ sptRet.dist[0][2] = 2

(* C9: called with width < 1 or height < 1, GenerateMaze does not crash    *)
(* and returns an error (no Maze).                                         *)
C9_InvalidDimensionsError ==
    ~ValidDims =>
        /\ pc # "panic"
        /\ pc \notin {"loop", "backtrack"}
        /\ pc = "done" => ret.kind = "error"

(* C10: CreateSpt returns an error and no table whenever the row count or  *)
(* the column count of the board is even (InvalidBoard) and whenever the   *)
(* X or Y of the source is not odd (InvalidSource); it returns a table     *)
(* only when the dimensions are odd and the source is odd/odd.             *)
C10_RejectsInvalidInput ==
    pc # "spt_call" =>
        /\ ~OddBoard(board) =>
              pc = "spt_ret" /\ sptRet = [status |-> "error", err |-> "InvalidBoard"]
        /\ (OddBoard(board) /\ ~(IsOdd(sptSrc.X) /\ IsOdd(sptSrc.Y))) =>
              pc = "spt_ret" /\ sptRet = [status |-> "error", err |-> "InvalidSource"]
        /\ (pc = "spt_ret" /\ sptRet.status = "ok") =>
              OddBoard(board) /\ IsOdd(sptSrc.X) /\ IsOdd(sptSrc.Y)

\* an odd x odd board was searched from a source with odd X and even Y, and
\* the call returned the source error
C10_Witness ==
    /\ pc = "spt_ret"
    /\ OddBoard(board)
    /\ NumRows(board) >= 3
    /\ IsOdd(sptSrc.X)
    /\ sptSrc.Y = 2
    /\ sptRet = [status |-> "error", err |-> "InvalidSource"]

----------------------------------------------------------------------------
(* CreateSpt, one iteration of its main loop at a time, on external boards *)

\* the positions CreateSpt reads: between two cell centres, or between a
\* cell centre and the outside of the board
ReadPositions(rows, cols) ==
    {p \in [r : 0..(rows - 1), c : 0..(cols - 1)] : (p.r % 2) # (p.c % 2)}

\* odd x odd boards as an external source (a maze file) can supply them:
\* any of the positions CreateSpt reads may be Empty, the border included
ExternalBoards ==
    UNION {{BoardWith(2 * ch + 1, 2 * cw + 1, open) :
                open \in SUBSET ReadPositions(2 * ch + 1, 2 * cw + 1)} :
             cw \in 1..LoopMaxWidth, ch \in 1..LoopMaxHeight}

LoopInit ==
    /\ pc = "spt_call"
    /\ board \in ExternalBoards
    /\ sptSrc \in {Coords(2 * cx + 1, 2 * cy + 1) :
                      cx \in 0..(LoopMaxWidth - 1), cy \in 0..(LoopMaxHeight - 1)}
    /\ sptSrc.X < NumCols(board)
    /\ sptSrc.Y < NumRows(board)
    /\ sptRet = None
    /\ width = 0
    /\ height = 0
    /\ seed = 0
    /\ rng = 0
    /\ toVisit = 0
    /\ x = 0
    /\ y = 0
    /\ backtrack = <<>>
    /\ endpoints = <<>>
    /\ ret = None
    /\ prev = None
    /\ ExtIdle

loopFrame == <<width, height, seed, board, rng, toVisit, x, y, backtrack,
               endpoints, ret, prev, sptSrc, text, loaded, CurrentMap, PlayerX,
               PlayerY, CurrentSteps, display, calls, grand, grand0>>

\* lines 396-430: the checks and the initialisation
SptEnter ==
    /\ pc = "spt_call"
    /\ LET st0 == SptStart(board, sptSrc)
       IN /\ pc' = CASE st0.status = "ok" -> "spt_loop"
                     [] st0.status = "error" -> "spt_ret"
                     [] OTHER -> "panic"
          /\ sptSt' = IF st0.status = "ok" THEN st0 ELSE sptSt
          /\ sptRet' = IF st0.status = "error" THEN st0 ELSE sptRet
    /\ UNCHANGED loopFrame

\* lines 432-460: one iteration of the main loop
SptIterate ==
    /\ pc = "spt_loop"
    /\ Len(sptSt.pq) # 0
    /\ sptSt' = SptStep(board, sptSt)
    /\ pc' = IF SptStep(board, sptSt).status = "panic" THEN "panic" ELSE "spt_loop"
    /\ UNCHANGED <<sptRet, loopFrame>>

\* lines 432, 462: the queue is empty, the table is returned
SptReturn ==
    /\ pc = "spt_loop"
    /\ Len(sptSt.pq) = 0
    /\ sptRet' = [status |-> "ok", dist |-> sptSt.dist]
    /\ pc' = "spt_ret"
    /\ UNCHANGED <<sptSt, loopFrame>>

LoopNext ==
    \/ SptEnter
    \/ SptIterate
    \/ SptReturn

SptLoopSpec == LoopInit /\ [][LoopNext]_vars

(* C11: on an external board with odd dimensions, whatever its tiles (the  *)
(* border included), and an in-bounds odd/odd source, CreateSpt does not   *)
(* crash and returns a distance table.                                     *)
C11_ExternalBoardCompletes ==
    /\ pc # "panic"
    /\ pc = "spt_ret" => sptRet.status = "ok"

(* C16: the entry the main loop of CreateSpt removes from the queue has    *)
(* the least weight of all entries in the queue.                           *)
C16_PopsMinimum ==
    (pc = "spt_loop" /\ Len(sptSt.pq) # 0) =>
        \A k \in 1..Len(sptSt.pq) :
            QueuePop(sptSt.pq).item.weight <= sptSt.pq[k].weight

----------------------------------------------------------------------------
(* Two GenerateMaze calls running concurrently in one process.  Each call  *)
(* has its own locals (a record); the only state they share is the         *)
(* process-wide source behind rand.Intn (generate.go line 85), which       *)
(* serialises its callers: every draw returns a function of the source's   *)
(* state and advances it.                                                  *)

\* the locals of a call on entry
InitCall(w, h, sd) ==
    [pc |-> "alloc", width |-> w, height |-> h, seed |-> sd, board |-> <<>>,
     rng |-> 0, toVisit |-> 0, x |-> 0, y |-> 0, backtrack |-> <<>>,
     endpoints |-> <<>>, ret |-> None]

\* line 85: the next step of call c is a carving step, which draws from the
\* process-wide source
DrawsGlobal(c) ==
    /\ c.pc = "loop"
    /\ c.toVisit > 0
    /\ Len(Directions(c.board, c.x, c.y, c.width, c.height)) # 0

\* lines 23-29
StepAlloc(c) ==
    IF AllocPanics(c.width, c.height) THEN [c EXCEPT !.pc = "panic"]
    ELSE [c EXCEPT !.board = AllWalls(c.width, c.height), !.pc = "seed"]

\* lines 34-41
StepSeed(c) ==
    IF IntnPanics(c.width, c.height) THEN [c EXCEPT !.pc = "panic"]
    ELSE LET r0 == NewSource(c.seed)
             r1 == RngNext(r0)
         IN [c EXCEPT !.x = RngIntn(r0, c.width),
                      !.y = RngIntn(r1, c.height),
                      !.rng = RngNext(r1),
                      !.endpoints = <<Coords(0, 0),
                                      Coords(RngIntn(r0, c.width), RngIntn(r1, c.height))>>,
                      !.toVisit = c.width * c.height,
                      !.backtrack = <<>>,
                      !.pc = "loop"]

\* lines 43-65, 84-103, 120-160: one pass through the head of the carving
\* loop; g is the state of the process-wide source
StepLoop(c, g) ==
    LET directions == Directions(c.board, c.x, c.y, c.width, c.height)
    IN IF c.toVisit <= 0
          THEN LET sel == SelectEndpoints(c.board, c.endpoints)
               IN IF sel.status = "panic" THEN [c EXCEPT !.pc = "panic"]
                  ELSE IF sel.status = "error"
                     THEN [c EXCEPT !.pc = "done", !.ret = [kind |-> "error"]]
                  ELSE [c EXCEPT !.pc = "done",
                                 !.board = Stamp(c.board, sel.src, sel.dest),
                                 !.ret = MakeMaze(Stamp(c.board, sel.src, sel.dest), sel.src,
                                                  sel.dest, sel.dist, c.width, c.height)]
       ELSE IF Len(directions) = 0
          THEN [c EXCEPT !.endpoints = Append(c.endpoints, Coords(c.x, c.y)),
                         !.pc = "backtrack"]
       ELSE LET move == directions[RngIntn(g, Len(directions)) + 1]
                t == MoveTarget(c.x, c.y, move)
            IN [c EXCEPT !.board = CarveBoard(c.board, c.x, c.y, move),
                         !.x = t.X,
                         !.y = t.Y,
                         !.toVisit = c.toVisit - 1,
                         !.backtrack = Append(c.backtrack, t)]

\* lines 66-83
StepBacktrack(c) ==
    IF Len(c.backtrack) = 0 THEN [c EXCEPT !.pc = "panic"]
    ELSE LET top == c.backtrack[Len(c.backtrack)]
         IN [c EXCEPT !.x = top.X,
                      !.y = top.Y,
                      !.backtrack = SubSeq(c.backtrack, 1, Len(c.backtrack) - 1),
                      !.pc = IF Len(Directions(c.board, top.X, top.Y, c.width, c.height)) = 0
                                THEN "backtrack" ELSE "loop"]

\* the next step of call c
GenStep(c, g) ==
    CASE c.pc = "alloc" -> StepAlloc(c)
      [] c.pc = "seed" -> StepSeed(c)
      [] c.pc = "loop" -> StepLoop(c, g)
      [] c.pc = "backtrack" -> StepBacktrack(c)
      [] OTHER -> c

\* the process-wide source after the step of call c
SourceAfter(c, g) == IF DrawsGlobal(c) THEN RngNext(g) ELSE g

\* call c run to its end with no other caller of the process-wide source
RECURSIVE RunAlone(_, _)
RunAlone(c, g) ==
    IF c.pc \in {"done", "panic"} THEN c ELSE RunAlone(GenStep(c, g), SourceAfter(c, g))

ConcInit ==
    /\ pc = "conc"
    /\ \E w1 \in 1..ConcMaxWidth, h1 \in 1..ConcMaxHeight, s1 \in 0..ConcMaxSeed,
          w2 \in 1..ConcMaxWidth, h2 \in 1..ConcMaxHeight, s2 \in 0..ConcMaxSeed :
          calls = <<InitCall(w1, h1, s1), InitCall(w2, h2, s2)>>
    /\ grand0 \in 0..MaxSeed
    /\ grand = grand0
    /\ sptSt = None
    /\ text = <<>>
    /\ loaded = None
    /\ CurrentMap = None
    /\ PlayerX = -1
    /\ PlayerY = -1
    /\ CurrentSteps = 0
    /\ display = <<>>
    /\ board = <<>>
    /\ sptSrc = Coords(0, 0)
    /\ sptRet = None
    /\ width = 0
    /\ height = 0
    /\ seed = 0
    /\ rng = 0
    /\ toVisit = 0
    /\ x = 0
    /\ y = 0
    /\ backtrack = <<>>
    /\ endpoints = <<>>
    /\ ret = None
    /\ prev = None

\* one of the calls takes its next step; a panic in either call ends the
\* process
ConcStep ==
    /\ pc = "conc"
    /\ \A j \in DOMAIN calls : calls[j].pc # "panic"
    /\ \E i \in DOMAIN calls :
          /\ calls[i].pc # "done"
          /\ calls' = [calls EXCEPT ![i] = GenStep(calls[i], grand)]
          /\ grand' = SourceAfter(calls[i], grand)
    /\ UNCHANGED <<pc, width, height, seed, board, rng, toVisit, x, y, backtrack,
                   endpoints, ret, prev, sptSrc, sptRet, sptSt, text, loaded,
                   CurrentMap, PlayerX, PlayerY, CurrentSteps, display, grand0>>

ConcNext == ConcStep

ConcSpec == ConcInit /\ [][ConcNext]_vars

\* what call i returns when it runs alone from the same state of the
\* process-wide source
AloneResult(i) ==
    RunAlone(InitCall(calls[i].width, calls[i].height, calls[i].seed), grand0)

(* C12: under every interleaving of two concurrent GenerateMaze calls,     *)
(* each call returns the Board it returns when run alone with the same     *)
(* width, height and seed.                                                 *)
C12_ConcurrentCallsIndependent ==
    \A i \in DOMAIN calls :
        (calls[i].pc = "done" /\ calls[i].ret.kind = "maze") =>
            /\ AloneResult(i).pc = "done"
            /\ AloneResult(i).ret.Board = calls[i].ret.Board

----------------------------------------------------------------------------
(* Shape of the board during and after generation.                         *)

\* the board of the running call has been allocated (lines 23-29 are past)
Allocated == pc \in {"seed", "loop", "backtrack", "done"} /\ ValidDims

\* the positions of the board
Positions(b) == [r : 0..(NumRows(b) - 1), c : 0..(NumCols(b) - 1)]

OnBorder(b, p) ==
    p.r = 0 \/ p.c = 0 \/ p.r = NumRows(b) - 1 \/ p.c = NumCols(b) - 1

\* the centres of the cells whose tile is still Wall
WallCentres(b, w, h) == {p \in Cells(w, h) : b[2 * p.Y + 1][2 * p.X + 1] = TILE_WALL}

(* C17: at every point of generation and in the returned board, the border *)
(* tiles and the even/even tiles are Wall, and a non-Wall tile is a cell   *)
(* centre or a connector between two adjacent in-bounds cells.             *)
C17_WallsStayInPlace ==
    Allocated =>
        \A p \in Positions(board) :
            /\ OnBorder(board, p) => board[p.r][p.c] = TILE_WALL
            /\ (p.r % 2 = 0 /\ p.c % 2 = 0) => board[p.r][p.c] = TILE_WALL
            /\ board[p.r][p.c] # TILE_WALL =>
                  \/ p.r % 2 = 1 /\ p.c % 2 = 1
                  \/ p \in Connectors(width, height)

\* a returned board with a carved vertical connector and a carved
\* horizontal connector
C17_Witness ==
    /\ Returned
    /\ \E p \in Carved(ret.Board, width, height) : p.r % 2 = 0
    /\ \E p \in Carved(ret.Board, width, height) : p.c % 2 = 0
    /\ board = ret.Board

(* C18: at every iteration of the carving loop toVisit is the number of    *)
(* cell centres still Wall, so when the loop exits with toVisit = 0 every  *)
(* cell centre, the starting cell included, has been carved.               *)
C18_ToVisitCountsWallCentres ==
    /\ pc \in {"loop", "backtrack"} =>
          toVisit = Cardinality(WallCentres(board, width, height))
    /\ (pc = "loop" /\ toVisit = 0) =>
          \A p \in Cells(width, height) : board[2 * p.Y + 1][2 * p.X + 1] # TILE_WALL
    /\ Returned =>
          \A p \in Cells(width, height) : ret.Board[2 * p.Y + 1][2 * p.X + 1] # TILE_WALL

\* the loop is about to exit on a grid of several cells: the starting cell
\* (the second recorded endpoint) has been carved on re-entry
C18_Witness ==
    /\ pc = "loop"
    /\ toVisit = 0
    /\ width * height >= 2
    /\ board[2 * endpoints[2].Y + 1][2 * endpoints[2].X + 1] = TILE_EMPTY

----------------------------------------------------------------------------
(* Maze text: LoadMazeFromString and DisplayText (part_000).  A string is  *)
(* a sequence of one-character strings.                                    *)

NEWLINE == "\n"
SPACE == " "
PLAYER == "@"

\* strings.Split(s, "\n"): n separators give n + 1 pieces, the empty string
\* gives one empty piece
RECURSIVE StringsSplit(_)
StringsSplit(s) ==
    IF Len(s) = 0 THEN << <<>> >>
    ELSE LET rest == StringsSplit(SubSeq(s, 1, Len(s) - 1))
             ch == s[Len(s)]
         IN IF ch = NEWLINE THEN Append(rest, <<>>)
            ELSE [rest EXCEPT ![Len(rest)] = Append(@, ch)]

\* lines 34-42: the locals of LoadMazeFromString before the loop
LoadStart ==
    [err |-> "", board |-> <<>>, row |-> <<>>, startX |-> 0, startY |-> 0,
     endX |-> 0, endY |-> 0, starts |-> 0, ends |-> 0, width |-> -1]

\* LoadTile with the test for a second End tile left out
LoadTileAnyEnds(ld, i, j) ==
    LET tile == ld.row[j + 1]
    IN IF tile = TILE_START
          THEN IF ld.starts > 0 THEN [ld EXCEPT !.err = "multiple start points"]
               ELSE [ld EXCEPT !.startX = j, !.startY = i, !.starts = @ + 1]
       ELSE IF tile = TILE_END
          THEN [ld EXCEPT !.endX = j, !.endY = i, !.ends = @ + 1]
       ELSE IF tile = SPACE
          THEN [ld EXCEPT !.row[j + 1] = TILE_EMPTY]
       ELSE IF tile # TILE_EMPTY /\ tile # TILE_WALL
          THEN [ld EXCEPT !.err = "invalid tile"]
       ELSE ld

\* lines 55-73: tile j of the row of line i
LoadTile(ld, i, j) ==
    LET tile == ld.row[j + 1]
    IN IF tile = TILE_START
          THEN IF ld.starts > 0 THEN [ld EXCEPT !.err = "multiple start points"]
               ELSE [ld EXCEPT !.startX = j, !.startY = i, !.starts = @ + 1]
       ELSE IF tile = TILE_END
          THEN IF ld.ends > 0 THEN [ld EXCEPT !.err = "multiple end points"]
               ELSE [ld EXCEPT !.endX = j, !.endY = i, !.ends = @ + 1]
       ELSE IF tile = SPACE
          THEN [ld EXCEPT !.row[j + 1] = TILE_EMPTY]
       ELSE IF tile # TILE_EMPTY /\ tile # TILE_WALL
          THEN [ld EXCEPT !.err = "invalid tile"]
       ELSE ld

\* lines 54-74: the tiles of the row from index j on, stopping at an error
RECURSIVE LoadTiles(_, _, _)
LoadTiles(ld, i, j) ==
    IF ld.err # "" \/ j >= Len(ld.row) THEN ld
    ELSE LoadTiles(LoadTile(ld, i, j), i, j + 1)

\* lines 44-75: line l, the i-th piece of the text (counted from 0)
LoadLine(ld, l, i) ==
    IF Len(l) = 0 THEN ld
    ELSE IF ld.width # -1 /\ ld.width # Len(l)
       THEN [ld EXCEPT !.err = "rows must have the same length"]
    ELSE LET scanned == LoadTiles([ld EXCEPT !.width = Len(l), !.row = l], i, 0)
         IN IF scanned.err # "" THEN scanned
            ELSE [scanned EXCEPT !.board = Append(@, scanned.row)]

\* lines 43-76: the pieces from index i on, stopping at an error
RECURSIVE LoadLines(_, _, _)
LoadLines(ld, lines, i) ==
    IF ld.err # "" \/ i >= Len(lines) THEN ld
    ELSE LoadLines(LoadLine(ld, lines[i + 1], i), lines, i + 1)

\* a [][]Tile built by append, as a board indexed from 0
ToBoard(rows) ==
    [r \in 0..(Len(rows) - 1) |-> [c \in 0..(Len(rows[r + 1]) - 1) |-> rows[r + 1][c + 1]]]

\* lines 31-86
LoadMazeFromString(s) ==
    LET ld == LoadLines(LoadStart, StringsSplit(s), 0)
    IN IF ld.err # "" THEN [kind |-> "error", err |-> ld.err]
       ELSE [kind |-> "maze",
             Board |-> ToBoard(ld.board),
             Start |-> Coords(ld.startX, ld.startY),
             End |-> Coords(ld.endX, ld.endY),
             PathLen |-> -1,
             Width |-> ld.width,
             Height |-> Len(ld.board)]

\* RenderRow with the WriteRune of the newline left out
RenderRowNoNewline(row, i, playerX, playerY) ==
    [k \in 1..Cardinality(DOMAIN row) |->
        IF k - 1 = playerX /\ i = playerY THEN PLAYER ELSE row[k - 1]]

\* lines 100-107: row i as text
RenderRow(row, i, playerX, playerY) ==
    [k \in 1..Cardinality(DOMAIN row) |->
        IF k - 1 = playerX /\ i = playerY THEN PLAYER ELSE row[k - 1]]
    \o <<NEWLINE>>

\* lines 99-108: the rows from index i on
RECURSIVE RenderRows(_, _, _, _)
RenderRows(b, i, playerX, playerY) ==
    IF i >= NumRows(b) THEN <<>>
    ELSE RenderRow(b[i], i, playerX, playerY) \o RenderRows(b, i + 1, playerX, playerY)

\* DisplayText writing the player marker into the receiver's Board
DisplayTextInPlace(m, playerX, playerY) ==
    [display |-> RenderRows(m.Board, 0, playerX, playerY),
     maze |-> IF playerY \in DOMAIN m.Board /\ playerX \in DOMAIN m.Board[playerY]
                 THEN [m EXCEPT !.Board = SetTile(m.Board, playerY, playerX, PLAYER)]
                 ELSE m]

\* lines 97-111: the string returned and the receiver after the call (the
\* function only reads m.Board)
DisplayText(m, playerX, playerY) ==
    [display |-> RenderRows(m.Board, 0, playerX, playerY), maze |-> m]

\* the returned maze rendered with the player off the board, loaded again
Reloaded == LoadMazeFromString(DisplayText(ret, -1, -1).display)

(* C14: the text DisplayText renders for a generated board, with the       *)
(* player position off the board, is accepted by LoadMazeFromString and    *)
(* loads to a Board equal tile for tile to the generated one.              *)
C14_RoundTrip ==
    Returned =>
        /\ Reloaded.kind = "maze"
        /\ Reloaded.Board = ret.Board

\* a returned board of several cell rows and columns whose rendering was
\* loaded again, with the Start tile found where the generator put it
C14_Witness ==
    /\ Returned
    /\ width >= 2
    /\ height >= 2
    /\ Reloaded.kind = "maze"
    /\ Reloaded.Height = 2 * height + 1
    /\ Reloaded.Start = ret.Start

----------------------------------------------------------------------------
(* A level played from a maze file: LevelSelect calls LoadFile and then    *)
(* PlayMap (game.go lines 75-76), whose input capture handles one key      *)
(* event at a time.                                                        *)

\* the characters a maze file is made of here: the four tiles, the space,
\* the newline and one character that is not a tile
Chars == {TILE_EMPTY, TILE_WALL, TILE_START, TILE_END, SPACE, NEWLINE, PLAYER}

Texts == UNION {[1..n -> Chars] : n \in 0..MaxTextLen}

GameInit ==
    /\ pc = "file"
    /\ text \in Texts
    /\ loaded = None
    /\ CurrentMap = None
    /\ PlayerX = -1
    /\ PlayerY = -1
    /\ CurrentSteps = 0
    /\ display = <<>>
    /\ sptSt = None
    /\ calls = <<>>
    /\ grand = 0
    /\ grand0 = 0
    /\ board = <<>>
    /\ sptSrc = Coords(0, 0)
    /\ sptRet = None
    /\ width = 0
    /\ height = 0
    /\ seed = 0
    /\ rng = 0
    /\ toVisit = 0
    /\ x = 0
    /\ y = 0
    /\ backtrack = <<>>
    /\ endpoints = <<>>
    /\ ret = None
    /\ prev = None

gameFrame ==
    <<width, height, seed, board, rng, toVisit, x, y, backtrack, endpoints, ret,
      prev, sptSrc, sptRet, sptSt, text, calls, grand, grand0>>

\* lines 176-192 and 75-76: LoadFile; on an error the error is displayed
\* and CurrentMap stays nil; PlayMap starts in both cases
LoadFile ==
    /\ pc = "file"
    /\ loaded' = LoadMazeFromString(text)
    /\ IF loaded'.kind = "error"
          THEN UNCHANGED <<CurrentMap, PlayerX, PlayerY, CurrentSteps>>
          ELSE /\ CurrentMap' = loaded'
               /\ PlayerX' = loaded'.Start.X
               /\ PlayerY' = loaded'.Start.Y
               /\ CurrentSteps' = 0
    /\ pc' = "play"
    /\ UNCHANGED <<display, gameFrame>>

\* Board[r][c] is an index expression that does not panic
InRange(b, r, c) == r \in DOMAIN b /\ c \in DOMAIN b[r]

\* lines 276-306: the board is rendered with the player at (px, py)
Render(px, py) ==
    /\ display' = DisplayText(CurrentMap, px, py).display
    /\ CurrentMap' = DisplayText(CurrentMap, px, py).maze

\* a dereference of the nil CurrentMap or an index out of range
KeyPanics ==
    /\ pc' = "panic"
    /\ UNCHANGED <<CurrentMap, PlayerX, PlayerY, CurrentSteps, display>>

\* lines 234-274 and 276-306: an arrow key towards (nx, ny) while the game
\* box has the focus; atEdge is the first operand of the case's condition
KeyArrow(atEdge, nx, ny) ==
    /\ IF CurrentMap.kind # "maze" THEN KeyPanics
       ELSE IF atEdge
          THEN /\ Render(PlayerX, PlayerY)
               /\ UNCHANGED <<pc, PlayerX, PlayerY, CurrentSteps>>
       ELSE IF ~InRange(CurrentMap.Board, ny, nx) THEN KeyPanics
       ELSE IF CurrentMap.Board[ny][nx] = TILE_WALL
          THEN /\ Render(PlayerX, PlayerY)
               /\ UNCHANGED <<pc, PlayerX, PlayerY, CurrentSteps>>
       ELSE /\ CurrentSteps < MaxSteps
            /\ PlayerX' = nx
            /\ PlayerY' = ny
            /\ CurrentSteps' = CurrentSteps + 1
            /\ Render(nx, ny)
            /\ pc' = IF CurrentMap.Board[ny][nx] = TILE_END THEN "end" ELSE "play"
    /\ UNCHANGED <<loaded, gameFrame>>

\* lines 234-243
KeyUp ==
    /\ pc = "play"
    /\ KeyArrow(PlayerY = 0, PlayerX, PlayerY - 1)

\* lines 244-253
KeyDown ==
    /\ pc = "play"
    /\ KeyArrow(CurrentMap.kind = "maze" /\ PlayerY = CurrentMap.Height - 1,
                PlayerX, PlayerY + 1)

\* lines 254-263
KeyLeft ==
    /\ pc = "play"
    /\ KeyArrow(PlayerX = 0, PlayerX - 1, PlayerY)

\* lines 264-273
KeyRight ==
    /\ pc = "play"
    /\ KeyArrow(CurrentMap.kind = "maze" /\ PlayerX = CurrentMap.Width - 1,
                PlayerX + 1, PlayerY)

\* lines 230-233 and 276-306: a key that is neither an arrow nor Escape
KeyOther ==
    /\ pc = "play"
    /\ IF CurrentMap.kind # "maze" THEN KeyPanics
       ELSE /\ Render(PlayerX, PlayerY)
            /\ UNCHANGED <<pc, PlayerX, PlayerY, CurrentSteps>>
    /\ UNCHANGED <<loaded, gameFrame>>

GameNext == LoadFile \/ KeyUp \/ KeyDown \/ KeyLeft \/ KeyRight \/ KeyOther

GameSpec == GameInit /\ [][GameNext]_vars

----------------------------------------------------------------------------
(* Properties of loading and playing.                                      *)

\* the number of occurrences of ch in the text t
Count(t, ch) == Cardinality({k \in 1..Len(t) : t[k] = ch})

\* the non-empty rows of the text t
TextRows(t) == SelectSeq(StringsSplit(t), LAMBDA l : Len(l) > 0)

\* the four defects of a maze text
RowLengthsDiffer(t) == \E k \in 1..Len(TextRows(t)) : Len(TextRows(t)[k]) # Len(TextRows(t)[1])
SecondStart(t) == Count(t, TILE_START) >= 2
SecondEnd(t) == Count(t, TILE_END) >= 2
InvalidChar(t) ==
    \E k \in 1..Len(t) :
        t[k] \notin {TILE_EMPTY, TILE_WALL, TILE_START, TILE_END, SPACE, NEWLINE}

Defective(t) == RowLengthsDiffer(t) \/ SecondStart(t) \/ SecondEnd(t) \/ InvalidChar(t)

\* the board the rows of t stand for, every space read as Empty
BoardOfText(t) ==
    [r \in 0..(Len(TextRows(t)) - 1) |->
        [c \in 0..(Len(TextRows(t)[r + 1]) - 1) |->
            IF TextRows(t)[r + 1][c + 1] = SPACE THEN TILE_EMPTY
            ELSE TextRows(t)[r + 1][c + 1]]]

FileLoaded == pc # "file" /\ pc # "conc" /\ loaded # None

(* C13: LoadMazeFromString returns an error and no Maze for a row of a     *)
(* different length, a second Start, a second End and a character that is  *)
(* not a tile or a space; a text with none of these defects loads, with    *)
(* every space stored as Empty.                                            *)
C13_LoadErrors ==
    FileLoaded =>
        /\ Defective(text) => loaded.kind = "error"
        /\ ~Defective(text) =>
              /\ loaded.kind = "maze"
              /\ loaded.Board = BoardOfText(text)

\* a text whose only defect is a second End tile was rejected
C13_Witness ==
    /\ FileLoaded
    /\ SecondEnd(text)
    /\ ~RowLengthsDiffer(text)
    /\ ~SecondStart(text)
    /\ ~InvalidChar(text)
    /\ loaded.kind = "error"

\* the tiles of the board b
TilesOf(b) == UNION {{b[r][c] : c \in DOMAIN b[r]} : r \in DOMAIN b}

Playing == pc \in {"play", "end"} /\ CurrentMap.kind = "maze"

(* C15: DisplayText with any player position and every key event handled   *)
(* by PlayMap leave every tile of CurrentMap.Board as it was loaded; the   *)
(* player marker is in the rendered string only.                           *)
C15_BoardNotMutated ==
    Playing =>
        /\ CurrentMap.Board = loaded.Board
        /\ PLAYER \notin TilesOf(CurrentMap.Board)
        /\ \A px \in -1..MaxTextLen, py \in -1..MaxTextLen :
              DisplayText(CurrentMap, px, py).maze = CurrentMap

\* the game was won after a move and the rendered string shows the player
C15_Witness ==
    /\ pc = "end"
    /\ CurrentSteps >= 1
    /\ \E k \in 1..Len(display) : display[k] = PLAYER
    /\ CurrentMap.Board = loaded.Board

(* C19: on a maze loaded from a text with a Start tile and an End tile,    *)
(* after LoadMaze and after any sequence of arrow keys the player position *)
(* is inside the board and not on a Wall tile, and no key event fails on   *)
(* an index out of the board.                                              *)
C19_PlayerStaysOnBoard ==
    (CurrentMap.kind = "maze" /\ Count(text, TILE_START) = 1 /\ Count(text, TILE_END) = 1) =>
        /\ pc # "panic"
        /\ InRange(CurrentMap.Board, PlayerY, PlayerX)
        /\ CurrentMap.Board[PlayerY][PlayerX] # TILE_WALL

(* C20: an accepted text with a Start tile and an End tile loads to a Maze *)
(* with the Start tile at Board[Start.Y][Start.X], the End tile at         *)
(* Board[End.Y][End.X] and Height equal to the number of rows of Board.    *)
C20_StartEndOnTiles ==
    (FileLoaded /\ loaded.kind = "maze"
        /\ Count(text, TILE_START) = 1 /\ Count(text, TILE_END) = 1) =>
        /\ InRange(loaded.Board, loaded.Start.Y, loaded.Start.X)
        /\ loaded.Board[loaded.Start.Y][loaded.Start.X] = TILE_START
        /\ InRange(loaded.Board, loaded.End.Y, loaded.End.X)
        /\ loaded.Board[loaded.End.Y][loaded.End.X] = TILE_END
        /\ loaded.Height = NumRows(loaded.Board)

====
